---------------------------- MODULE Spec2Model ----------------------------
(***************************************************************************)
(* A model of the nozzle drawing engine, class CanvasDrawer                *)
(* (canvasDrawer.js), as a state machine: one action per public method,    *)
(* translated from the method's code.  The raster surface is modelled by   *)
(* what was painted on it since it was last wiped: the grid lines and the  *)
(* sequence of primitives (line segments, stamped images) in paint order.  *)
(* Date.now() is the variable now, advanced by Tick.  A method that ends   *)
(* by throwing (a TypeError from the DOM or from a property access on      *)
(* undefined) keeps the assignments it made before the throw and sets      *)
(* raised.                                                                 *)
(***************************************************************************)
EXTENDS Integers, Sequences, FiniteSets, TLC

\* ------------------------------------------------------------------ bounds

\* The runs explored: at most MaxSteps steps (calls of the engine's methods and
\* ticks of the clock) after construction.
MaxSteps == 5

\* Date.now() when the engine is constructed.
Clock0 == 1000

\* SpecBrush: the setup calls, the stamp-mode draws of one long stroke and the
\* calls that follow it are at most MaxBrushSteps; the first MaxFree draws of a
\* stroke go to any point, the later ones follow the pointer's round trip.
MaxBrushSteps == 26
MaxFree == 2

\* SpecCache: at most MaxReaders FileReaders read at the same time.
MaxReaders == 2

\* --------------------------------------------------------- program constants

bufferSize == 20

gridSize == 20

\* circlesPerPixel = 0.1 = 1 / circlesPerPixelDenom
circlesPerPixelDenom == 10

\* The fixed footprint of a stamped image: drawImage(img, x - 100, y - 100, 200, 200)
stampOffset == 100

stampSize == 200

\* canvas.width and canvas.height, set by the component from its container.
canvasWidth == 40

canvasHeight == 30

\* ----------------------------------------------------------------- inputs

\* Pointer coordinates.  Every pairwise distance is an integer (0, 10, 24, 26),
\* so Math.sqrt is exact on them, and so is the interpolation of the stamps.
Points == { [x |-> 0, y |-> 0], [x |-> 10, y |-> 0], [x |-> 10, y |-> 24] }

\* this.imageId = null
NoImage == "null"

\* The ids of the <img> elements of the document (BrushMenu renders one per image).
DomImages == { "brush.png" }

\* The ids setBrushImage is called with: one that resolves, one that does not.
ImageIds == { "brush.png", "gone.png" }

\* The sources the ImageLoader is given, by the constructor and by addImages.
InitialSrcArrays == { << >>, << "a.png" >> }
SrcArrays == { << "a.png" >>, << "b.png" >>, << "b.png", "a.png" >>, << "c.png" >> }

\* this.loadingError = null, and the two errors load() makes.
NoError == [message |-> "null", src |-> ""]
LoadFailed(src) == [message |-> "Failed to load image", src |-> src]
AlreadyLoading == [message |-> "Load already in progress.", src |-> ""]

\* The names of the files the user picks.
FileNames == { "f.png", "g.png" }

\* localStorage.getItem gives null; reader.result is null; String(null).
Absent == "absent"
JsNull == "js-null"
NullString == "null"

\* reader.result after a successful readAsDataURL(file).
DataUrl(name) == IF name = "f.png" THEN "data:f" ELSE "data:g"

\* What localStorage holds when the hook mounts.
InitialStorages ==
    { [f \in FileNames |-> Absent],
      [f \in FileNames |-> IF f = "f.png" THEN DataUrl(f) ELSE Absent] }

VARIABLES
    canvasHistory,   \* this.canvasHistory: sequence of strokes, each a sequence of {x, y, t}
    brushMode,       \* this.brushMode
    showGrid,        \* this.showGrid
    isDrawing,       \* this.isDrawing
    lastT,           \* this.lastT
    lastX,           \* this.lastX
    lastY,           \* this.lastY
    imageId,         \* this.imageId
    distanceBuffer,  \* this.distanceBuffer, indexed 0 .. bufferSize - 1
    pointBuffer,     \* this.pointBuffer, indexed 0 .. bufferSize - 1
    bufferIndex,     \* this.bufferIndex
    ctx,             \* the 2d context's strokeStyle, lineWidth and filter
    surface,         \* what is painted on the canvas: [grid, marks]
    now,             \* Date.now()
    raised,          \* whether the last call ended by throwing
    lastCall,        \* the name of the last method called
    steps,           \* the number of steps taken since construction
    run,             \* the calls since the last startDrawing, while it is followed
                     \* by nothing but draw calls in line mode and one stopDrawing
    toggles,         \* the toggleGrid calls made in a row just now: how many, and
                     \* showGrid and the rest of the engine's state before the
                     \* first of them
    lastDraw,        \* the last call, if it was a draw while Drawing: its argument,
                     \* the state it started from and the averages it computed
    stamped,         \* the distances of the stamp-mode draws made while Drawing
                     \* since the last startDrawing, in call order
    lastMode,        \* the argument of the last setBrushMode call
    live,            \* the line segments draw has painted since the last clear, and
                     \* whether every draw made while Drawing since then was in line mode
    \* ImageLoader
    srcArray,        \* this.srcArray
    loadedImages,    \* this.loadedImages
    loadingError,    \* this.loadingError
    isLoading,       \* this.isLoading
    imagePromises,   \* the promises load() made, one per source: [src, state]
    loadPromise,     \* the promise the last accepted load() returned
    busyCall,        \* the promise the last load() returned, if it was called while
                     \* a load was in progress
    lastLoad,        \* the last load that began: its sources, how it ended, and
                     \* whether a source was added after it ended
    \* useImageCache
    images,          \* the images state
    cacheIsLoading,  \* the isLoading state
    isMounted,       \* isMounted.current
    localStorage,    \* localStorage's value under CACHE_PREFIX + name, per file name
    readers,         \* the number of FileReaders reading, per file name
    cacheLast        \* the last thing that happened to the hook; for a failed read,
                     \* the file and what images and localStorage were before it

engine == << canvasHistory, brushMode, showGrid, isDrawing, lastT, lastX, lastY,
             imageId, distanceBuffer, pointBuffer, bufferIndex, ctx, surface, raised >>

drawer == << canvasHistory, brushMode, showGrid, isDrawing, lastT, lastX, lastY,
             imageId, distanceBuffer, pointBuffer, bufferIndex, ctx, surface, raised,
             now, lastCall, steps, run, toggles, lastDraw, stamped, lastMode, live >>

loader == << srcArray, loadedImages, loadingError, isLoading, imagePromises,
             loadPromise, busyCall, lastLoad >>

cache == << images, cacheIsLoading, isMounted, localStorage, readers, cacheLast >>

vars == << canvasHistory, brushMode, showGrid, isDrawing, lastT, lastX, lastY,
           imageId, distanceBuffer, pointBuffer, bufferIndex, ctx, surface, raised,
           now, lastCall, steps, run, toggles, lastDraw, stamped, lastMode, live,
           srcArray, loadedImages, loadingError, isLoading, imagePromises,
           loadPromise, busyCall, lastLoad,
           images, cacheIsLoading, isMounted, localStorage, readers, cacheLast >>

\* ---------------------------------------------------------------- helpers

Last(s) == s[Len(s)]

\* The mount effect: one image per key of localStorage that holds a value.
\* (Object.keys order: f.png before g.png.)
CachedImages(stored) ==
    (IF stored["f.png"] # Absent
     THEN << [name |-> "f.png", src |-> stored["f.png"]] >> ELSE << >>)
    \o (IF stored["g.png"] # Absent
        THEN << [name |-> "g.png", src |-> stored["g.png"]] >> ELSE << >>)

Max(a, b) == IF a >= b THEN a ELSE b

\* Math.sqrt on a perfect square (the floor of the root otherwise).
Sqrt(n) == CHOOSE r \in 0 .. n : r * r <= n /\ (r + 1) * (r + 1) > n

\* Math.sqrt((x - this.lastX) ** 2 + (y - this.lastY) ** 2)
Distance(x0, y0, x, y) == Sqrt((x - x0) * (x - x0) + (y - y0) * (y - y0))

\* this.distanceBuffer.reduce((a, b) => a + b, 0), over slots 0 .. n - 1
RECURSIVE SumTo(_, _)
SumTo(buf, n) == IF n = 0 THEN 0 ELSE buf[n - 1] + SumTo(buf, n - 1)

\* this.distanceBuffer.reduce((a, b) => a + b, 0) / this.bufferSize, as a fraction
AvgDistance(buf) == [num |-> SumTo(buf, bufferSize), den |-> bufferSize]

\* Math.max(1, Math.floor(currentD * this.circlesPerPixel))
NumCircles(currentD) == Max(1, currentD \div circlesPerPixelDenom)

\* A stroked segment, with the stroke style it was painted in.
Line(x0, y0, x1, y1, c) ==
    [kind |-> "line", x0 |-> x0, y0 |-> y0, x1 |-> x1, y1 |-> y1,
     strokeStyle |-> c.strokeStyle, lineWidth |-> c.lineWidth]

\* The lines _drawGrid strokes: x = 0, gridSize, ... < width; y likewise.
GridLines ==
    { Line(gx, 0, gx, canvasHeight, [strokeStyle |-> "#ddd", lineWidth |-> "0.5"]) :
        gx \in { g \in 0 .. canvasWidth - 1 : g % gridSize = 0 } }
    \cup
    { Line(0, gy, canvasWidth, gy, [strokeStyle |-> "#ddd", lineWidth |-> "0.5"]) :
        gy \in { g \in 0 .. canvasHeight - 1 : g % gridSize = 0 } }

\* Variant of AfterGrid: the grid's stroke style is left in the context.
AfterGrid_KeepsGridStyle(c) == [c EXCEPT !.strokeStyle = "#ddd", !.lineWidth = "0.5"]

\* The context after _drawGrid: the drawing stroke style is set again.
AfterGrid(c) == [c EXCEPT !.strokeStyle = "#fff", !.lineWidth = "2"]

\* _clearCanvas with the flag show: clearRect, then the grid if show.
ClearedSurface(show) == [grid |-> IF show THEN GridLines ELSE {}, marks |-> << >>]

ClearedCtx(show, c) == IF show THEN AfterGrid(c) ELSE c

\* document.getElementById(id) finds an element
Resolves(id) == id \in DomImages

\* The images _drawImage stamps from (x0, y0) to (x, y): i = 0 .. numCircles.
Stamps_SkipsEndpoint(x0, y0, x, y, id) ==
    LET n == NumCircles(Distance(x0, y0, x, y))
    IN  [i \in 1 .. n |->
            [kind |-> "image", img |-> id,
             dx |-> x0 + ((x - x0) * (i - 1)) \div n - stampOffset,
             dy |-> y0 + ((y - y0) * (i - 1)) \div n - stampOffset,
             dw |-> stampSize, dh |-> stampSize]]

Stamps(x0, y0, x, y, id) ==
    LET n == NumCircles(Distance(x0, y0, x, y))
    IN  [i \in 1 .. n + 1 |->
            [kind |-> "image", img |-> id,
             dx |-> x0 + ((x - x0) * (i - 1)) \div n - stampOffset,
             dy |-> y0 + ((y - y0) * (i - 1)) \div n - stampOffset,
             dw |-> stampSize, dh |-> stampSize]]

\* The segments redrawHistory strokes for one stroke: sample i to sample i + 1.
StrokeSegments(stroke, c) ==
    [i \in 1 .. Len(stroke) - 1 |->
        Line(stroke[i].x, stroke[i].y, stroke[i + 1].x, stroke[i + 1].y, c)]

RECURSIVE HistorySegments(_, _)
HistorySegments(history, c) ==
    IF history = << >> THEN << >>
    ELSE StrokeSegments(Head(history), c) \o HistorySegments(Tail(history), c)

\* ------------------------------------------------------------ construction

DrawerInit ==
    /\ canvasHistory = << >>
    /\ brushMode = FALSE
    /\ showGrid = TRUE
    /\ isDrawing = FALSE
    /\ lastT = 0
    /\ lastX = 0
    /\ lastY = 0
    /\ imageId = NoImage
    /\ distanceBuffer = [i \in 0 .. bufferSize - 1 |-> 0]
    /\ pointBuffer = [i \in 0 .. bufferSize - 1 |-> [x |-> 0, y |-> 0]]
    /\ bufferIndex = 0
    /\ ctx = [strokeStyle |-> "#fff", lineWidth |-> "2", filter |-> "none"]
    /\ surface = ClearedSurface(TRUE)
    /\ now = Clock0
    /\ raised = FALSE
    /\ lastCall = "constructor"
    /\ steps = 0
    /\ run = [phase |-> "none"]
    /\ toggles = [n |-> 0, showGrid0 |-> showGrid, surface0 |-> surface,
                  before |-> << canvasHistory, isDrawing, brushMode, imageId,
                                lastX, lastY, distanceBuffer, pointBuffer, bufferIndex >>]
    /\ lastDraw = [active |-> FALSE]
    /\ stamped = << >>
    /\ lastMode = FALSE
    /\ live = [segments |-> {}, lineOnly |-> TRUE]

\* new ImageLoader(srcs)
LoaderInit(srcs) ==
    /\ srcArray = srcs
    /\ loadedImages = << >>
    /\ loadingError = NoError
    /\ isLoading = FALSE
    /\ imagePromises = << >>
    /\ loadPromise = [state |-> "none", images |-> << >>, error |-> NoError]
    /\ busyCall = [made |-> FALSE]
    /\ lastLoad = [outcome |-> "none", srcs |-> << >>, error |-> NoError, added |-> FALSE]

\* useImageCache() after its mount effect, with stored in localStorage.
CacheInit(stored) ==
    /\ localStorage = stored
    /\ images = CachedImages(stored)
    /\ cacheIsLoading = FALSE
    /\ isMounted = TRUE
    /\ readers = [f \in FileNames |-> 0]
    /\ cacheLast = [event |-> "mount"]

Init ==
    /\ DrawerInit
    /\ LoaderInit(<< >>)
    /\ CacheInit([f \in FileNames |-> Absent])


\* --------------------------------------------------------------- operations

\* Variant of FirstSample: the first sample carries the clock value.
FirstSample_Now(point) == [x |-> point.x, y |-> point.y, t |-> now]

\* The first sample of a stroke, pushed by startDrawing.
FirstSample(point) == [x |-> point.x, y |-> point.y, t |-> 0]

\* Variant of DrawSample: the subtraction the other way round.
DrawSample_Reversed(point) ==
    [x |-> point.x, y |-> point.y, t |-> Last(canvasHistory)[1].t - now]

\* The sample draw pushes: t is Date.now() minus the t of the stroke's first sample.
DrawSample(point) ==
    [x |-> point.x, y |-> point.y, t |-> now - Last(canvasHistory)[1].t]

\* canvasHistory[canvasHistory.length - 1].push(sample)
PushSample_Overwrites(history, sample) ==
    [history EXCEPT ![Len(history)] = [@ EXCEPT ![Len(@)] = sample]]

PushSample(history, sample) ==
    [history EXCEPT ![Len(history)] = Append(@, sample)]

\* startDrawing(point)
\* Variant of startDrawing: the smoothing buffer's cursor is left where it was.
startDrawing_KeepsCursor(point) ==
    /\ isDrawing' = TRUE
    /\ lastX' = point.x
    /\ lastY' = point.y
    /\ canvasHistory' = Append(canvasHistory, << FirstSample(point) >>)
    /\ lastT' = now
    /\ distanceBuffer' = [i \in 0 .. bufferSize - 1 |-> 0]
    /\ pointBuffer' = [i \in 0 .. bufferSize - 1 |-> [x |-> point.x, y |-> point.y]]
    /\ raised' = FALSE
    /\ UNCHANGED << brushMode, showGrid, imageId, ctx, surface, bufferIndex >>

startDrawing(point) ==
    /\ isDrawing' = TRUE
    /\ lastX' = point.x
    /\ lastY' = point.y
    /\ canvasHistory' = Append(canvasHistory, << FirstSample(point) >>)
    /\ lastT' = now
    /\ distanceBuffer' = [i \in 0 .. bufferSize - 1 |-> 0]
    /\ bufferIndex' = 0
    /\ pointBuffer' = [i \in 0 .. bufferSize - 1 |-> [x |-> point.x, y |-> point.y]]
    /\ raised' = FALSE
    /\ UNCHANGED << brushMode, showGrid, imageId, ctx, surface >>

\* Variant of drawLine: moveTo the new point instead of the last one.
drawLine_FromNewPoint(x, y) ==
    surface' = [surface EXCEPT !.marks = Append(@, Line(x, y, x, y, ctx))]

\* _drawLine(x, y): one segment from (lastX, lastY) to (x, y)
drawLine(x, y) ==
    surface' = [surface EXCEPT !.marks = Append(@, Line(lastX, lastY, x, y, ctx))]

\* _drawImage(x, y), the buffers: the distance and the point go into the slot at
\* bufferIndex and the index advances, before anything is painted.
\* Variant of drawImageBuffers: the cursor wraps to slot 1 instead of slot 0.
drawImageBuffers_WrapsToOne(x, y) ==
    /\ distanceBuffer' =
           [distanceBuffer EXCEPT ![bufferIndex] = Distance(lastX, lastY, x, y)]
    /\ pointBuffer' = [pointBuffer EXCEPT ![bufferIndex] = [x |-> x, y |-> y]]
    /\ bufferIndex' = IF bufferIndex + 1 = bufferSize THEN 1 ELSE bufferIndex + 1

\* Variant of drawImageBuffers: the cursor is never wrapped.
drawImageBuffers_NoWrap(x, y) ==
    /\ distanceBuffer' =
           [distanceBuffer EXCEPT ![bufferIndex] = Distance(lastX, lastY, x, y)]
    /\ pointBuffer' = [pointBuffer EXCEPT ![bufferIndex] = [x |-> x, y |-> y]]
    /\ bufferIndex' = bufferIndex + 1

drawImageBuffers(x, y) ==
    /\ distanceBuffer' =
           [distanceBuffer EXCEPT ![bufferIndex] = Distance(lastX, lastY, x, y)]
    /\ pointBuffer' = [pointBuffer EXCEPT ![bufferIndex] = [x |-> x, y |-> y]]
    /\ bufferIndex' = (bufferIndex + 1) % bufferSize

\* _drawImage(x, y), the painting: ctx.drawImage(document.getElementById(imageId), ...)
\* for i = 0 .. numCircles.  drawImage throws a TypeError on null, at i = 0.
drawImagePaint(x, y) ==
    IF Resolves(imageId)
    THEN surface' = [surface EXCEPT !.marks = @ \o Stamps(lastX, lastY, x, y, imageId)]
    ELSE surface' = surface

\* Whether the render step of draw completes.
RenderCompletes == brushMode => Resolves(imageId)

\* Whether the history update of draw completes: canvasHistory[length - 1] is
\* undefined on an empty history, and .push on it throws a TypeError.
PushCompletes == canvasHistory # << >>

\* Variant of drawActive: lastX, lastY are set before the render step.
drawActive_MovesFirst(point) ==
    /\ IF brushMode
       THEN drawImageBuffers(point.x, point.y) /\ drawImagePaint(point.x, point.y)
       ELSE /\ drawLine(point.x, point.y)
            /\ UNCHANGED << distanceBuffer, pointBuffer, bufferIndex >>
    /\ lastX' = point.x
    /\ lastY' = point.y
    /\ IF RenderCompletes /\ PushCompletes
       THEN /\ canvasHistory' = PushSample(canvasHistory, DrawSample(point))
            /\ raised' = FALSE
       ELSE /\ raised' = TRUE
            /\ UNCHANGED canvasHistory
    /\ UNCHANGED << brushMode, showGrid, isDrawing, lastT, imageId, ctx >>

\* draw(point), past its guard: the render step, then the history update.
drawActive(point) ==
    /\ IF brushMode
       THEN drawImageBuffers(point.x, point.y) /\ drawImagePaint(point.x, point.y)
       ELSE /\ drawLine(point.x, point.y)
            /\ UNCHANGED << distanceBuffer, pointBuffer, bufferIndex >>
    /\ IF RenderCompletes /\ PushCompletes
       THEN /\ canvasHistory' = PushSample(canvasHistory, DrawSample(point))
            /\ lastX' = point.x
            /\ lastY' = point.y
            /\ raised' = FALSE
       ELSE /\ raised' = TRUE
            /\ UNCHANGED << canvasHistory, lastX, lastY >>
    /\ UNCHANGED << brushMode, showGrid, isDrawing, lastT, imageId, ctx >>

\* Variant of draw: without the guard on isDrawing.
draw_Unguarded(point) == drawActive(point)

\* draw(point): if (!this.isDrawing) return
draw(point) ==
    IF ~isDrawing
    THEN /\ raised' = FALSE
         /\ UNCHANGED << canvasHistory, brushMode, showGrid, isDrawing, lastT, lastX,
                         lastY, imageId, distanceBuffer, pointBuffer, bufferIndex,
                         ctx, surface >>
    ELSE drawActive(point)

\* stopDrawing()
stopDrawing ==
    /\ isDrawing' = FALSE
    /\ raised' = FALSE
    /\ UNCHANGED << canvasHistory, brushMode, showGrid, lastT, lastX, lastY, imageId,
                    distanceBuffer, pointBuffer, bufferIndex, ctx, surface >>

\* getIsDrawing()
getIsDrawing == isDrawing

\* getBrushMode()
getBrushMode == brushMode

\* _clearCanvas(), with the value showGrid has when it is called
clearCanvas(show) ==
    /\ surface' = ClearedSurface(show)
    /\ ctx' = ClearedCtx(show, ctx)

\* Variant of clear: it also ends the stroke in progress.
clear_StopsStroke ==
    /\ canvasHistory' = << >>
    /\ clearCanvas(showGrid)
    /\ isDrawing' = FALSE
    /\ raised' = FALSE
    /\ UNCHANGED << brushMode, showGrid, lastT, lastX, lastY, imageId,
                    distanceBuffer, pointBuffer, bufferIndex >>

\* Variant of clear: it wipes the surface and keeps the history.
clear_KeepsHistory ==
    /\ clearCanvas(showGrid)
    /\ raised' = FALSE
    /\ UNCHANGED << canvasHistory, brushMode, showGrid, isDrawing, lastT, lastX, lastY,
                    imageId, distanceBuffer, pointBuffer, bufferIndex >>

\* clear()
clear ==
    /\ canvasHistory' = << >>
    /\ clearCanvas(showGrid)
    /\ raised' = FALSE
    /\ UNCHANGED << brushMode, showGrid, isDrawing, lastT, lastX, lastY, imageId,
                    distanceBuffer, pointBuffer, bufferIndex >>

\* Variant of toggleGrid: it switches the grid on instead of flipping it.
toggleGrid_AlwaysOn ==
    /\ showGrid' = TRUE
    /\ clearCanvas(TRUE)
    /\ raised' = FALSE
    /\ UNCHANGED << canvasHistory, brushMode, isDrawing, lastT, lastX, lastY, imageId,
                    distanceBuffer, pointBuffer, bufferIndex >>

\* toggleGrid()
toggleGrid ==
    /\ showGrid' = ~showGrid
    /\ clearCanvas(~showGrid)
    /\ raised' = FALSE
    /\ UNCHANGED << canvasHistory, brushMode, isDrawing, lastT, lastX, lastY, imageId,
                    distanceBuffer, pointBuffer, bufferIndex >>

\* setBrushMode(enabled)
\* Variant of setBrushMode: stamp mode, once on, stays on.
setBrushMode_Sticky(enabled) ==
    /\ brushMode' = (brushMode \/ enabled)
    /\ ctx' = [ctx EXCEPT !.filter = IF enabled THEN "invert(1) opacity(10%)"
                                                ELSE "invert(0) opacity(100%)"]
    /\ raised' = FALSE
    /\ UNCHANGED << canvasHistory, showGrid, isDrawing, lastT, lastX, lastY, imageId,
                    distanceBuffer, pointBuffer, bufferIndex, surface >>

setBrushMode(enabled) ==
    /\ brushMode' = enabled
    /\ ctx' = [ctx EXCEPT !.filter = IF enabled THEN "invert(1) opacity(10%)"
                                                ELSE "invert(0) opacity(100%)"]
    /\ raised' = FALSE
    /\ UNCHANGED << canvasHistory, showGrid, isDrawing, lastT, lastX, lastY, imageId,
                    distanceBuffer, pointBuffer, bufferIndex, surface >>

\* setBrushImage(id)
setBrushImage(id) ==
    /\ imageId' = id
    /\ raised' = FALSE
    /\ UNCHANGED << canvasHistory, brushMode, showGrid, isDrawing, lastT, lastX, lastY,
                    distanceBuffer, pointBuffer, bufferIndex, ctx, surface >>

\* redrawHistory(): _clearCanvas, then one path per stroke through its samples,
\* between ctx.save() and ctx.restore().
redrawHistory ==
    /\ ctx' = ClearedCtx(showGrid, ctx)
    /\ surface' = [ClearedSurface(showGrid) EXCEPT
                      !.marks = HistorySegments(canvasHistory, ClearedCtx(showGrid, ctx))]
    /\ raised' = FALSE
    /\ UNCHANGED << canvasHistory, brushMode, showGrid, isDrawing, lastT, lastX, lastY,
                    imageId, distanceBuffer, pointBuffer, bufferIndex >>

\* ------------------------------------------------------------------- calls

NoRun == [phase |-> "none"]

NoToggles ==
    [n |-> 0, showGrid0 |-> showGrid', surface0 |-> surface',
     before |-> << canvasHistory', isDrawing', brushMode', imageId',
                   lastX', lastY', distanceBuffer', pointBuffer', bufferIndex' >>]

NoDraw == [active |-> FALSE]

\* What a draw(p) call leaves in lastDraw.
DrawRecord(p) ==
    IF ~isDrawing THEN NoDraw
    ELSE [active |-> TRUE, point |-> p, x0 |-> lastX, y0 |-> lastY,
          stamp |-> brushMode, resolved |-> Resolves(imageId),
          marks0 |-> surface.marks, dist0 |-> distanceBuffer, pts0 |-> pointBuffer,
          index0 |-> bufferIndex,
          avgDistanceLast |-> AvgDistance(distanceBuffer),
          avgDistance |-> AvgDistance(distanceBuffer')]

\* One more step of a run of at most MaxSteps.
Budget == steps < MaxSteps /\ steps' = steps + 1 /\ UNCHANGED << loader, cache >>

StartDrawingCall(p) ==
    /\ startDrawing(p)
    /\ lastCall' = "startDrawing"
    /\ run' = [phase |-> "open", p0 |-> p, pts |-> << >>,
               surface0 |-> surface, hist0 |-> Len(canvasHistory), t0 |-> now,
               history0 |-> canvasHistory, wasDrawing |-> isDrawing]
    /\ toggles' = NoToggles
    /\ lastDraw' = NoDraw
    /\ stamped' = << >>
    /\ UNCHANGED << lastMode, now, live >>

CallStartDrawing ==
    \E p \in Points :
        /\ StartDrawingCall(p)
        /\ Budget

DrawCall(p) ==
    /\ draw(p)
    /\ lastCall' = "draw"
    /\ run' = IF run.phase = "open" /\ ~brushMode
              THEN [run EXCEPT !.pts = Append(@, p)]
              ELSE NoRun
    /\ toggles' = NoToggles
    /\ lastDraw' = DrawRecord(p)
    /\ stamped' = IF isDrawing /\ brushMode
                  THEN Append(stamped, Distance(lastX, lastY, p.x, p.y))
                  ELSE stamped
    /\ live' = IF ~isDrawing THEN live
               ELSE IF brushMode THEN [live EXCEPT !.lineOnly = FALSE]
               ELSE [live EXCEPT !.segments = @ \cup { << lastX, lastY, p.x, p.y >> }]
    /\ UNCHANGED << lastMode, now >>

CallDraw ==
    \E p \in Points :
        /\ DrawCall(p)
        /\ Budget

CallStopDrawing ==
    /\ stopDrawing
    /\ lastCall' = "stopDrawing"
    /\ run' = IF run.phase = "open" THEN [run EXCEPT !.phase = "stopped"] ELSE NoRun
    /\ toggles' = NoToggles
    /\ lastDraw' = NoDraw
    /\ UNCHANGED << stamped, lastMode, live >>
    /\ Budget
    /\ UNCHANGED now

CallClear ==
    /\ clear
    /\ lastCall' = "clear"
    /\ run' = NoRun
    /\ toggles' = NoToggles
    /\ lastDraw' = NoDraw
    /\ live' = [segments |-> {}, lineOnly |-> TRUE]
    /\ UNCHANGED << stamped, lastMode >>
    /\ Budget
    /\ UNCHANGED now

CallToggleGrid ==
    /\ toggleGrid
    /\ lastCall' = "toggleGrid"
    /\ run' = NoRun
    /\ toggles' = [toggles EXCEPT !.n = @ + 1]
    /\ lastDraw' = NoDraw
    /\ UNCHANGED << stamped, lastMode, live >>
    /\ Budget
    /\ UNCHANGED now

SetBrushModeCall(enabled) ==
    /\ setBrushMode(enabled)
    /\ lastCall' = "setBrushMode"
    /\ run' = NoRun
    /\ toggles' = NoToggles
    /\ lastDraw' = NoDraw
    /\ lastMode' = enabled
    /\ UNCHANGED << stamped, now, live >>

CallSetBrushMode ==
    \E enabled \in BOOLEAN :
        /\ SetBrushModeCall(enabled)
        /\ Budget

SetBrushImageCall(id) ==
    /\ setBrushImage(id)
    /\ lastCall' = "setBrushImage"
    /\ run' = NoRun
    /\ toggles' = NoToggles
    /\ lastDraw' = NoDraw
    /\ UNCHANGED << stamped, lastMode, now, live >>

CallSetBrushImage ==
    \E id \in ImageIds :
        /\ SetBrushImageCall(id)
        /\ Budget

CallRedrawHistory ==
    /\ redrawHistory
    /\ lastCall' = "redrawHistory"
    /\ run' = NoRun
    /\ toggles' = NoToggles
    /\ lastDraw' = NoDraw
    /\ UNCHANGED << stamped, lastMode, live >>
    /\ Budget
    /\ UNCHANGED now

\* Date.now() advances between two calls.
Tick ==
    /\ now' = now + 1
    /\ Budget
    /\ UNCHANGED << engine, lastCall, run, toggles, lastDraw, stamped, lastMode, live >>

Next ==
    \/ CallStartDrawing
    \/ CallDraw
    \/ CallStopDrawing
    \/ CallClear
    \/ CallToggleGrid
    \/ CallSetBrushMode
    \/ CallSetBrushImage
    \/ CallRedrawHistory
    \/ Tick

Spec == Init /\ [][Next]_vars

\* ---------------------------------------------------- one long stamp-mode stroke

\* The pointer's round trip through Points.
PointCycle == << [x |-> 0, y |-> 0], [x |-> 10, y |-> 0], [x |-> 10, y |-> 24] >>

NextPoint(p) ==
    LET i == CHOOSE j \in 1 .. Len(PointCycle) : PointCycle[j] = p
    IN  PointCycle[(i % Len(PointCycle)) + 1]

\* Where the pointer was at the last draw of the stroke, or at its start.
PointerAt == IF lastDraw.active THEN lastDraw.point ELSE [x |-> lastX, y |-> lastY]

BrushBudget ==
    steps < MaxBrushSteps /\ steps' = steps + 1 /\ UNCHANGED << loader, cache >>

\* The tool is switched to stamp mode.
BrushSetMode ==
    /\ ~brushMode
    /\ SetBrushModeCall(TRUE)
    /\ BrushBudget

\* A brush image is picked before the stroke begins (or none is: imageId stays null).
BrushSetImage ==
    /\ brushMode
    /\ ~isDrawing
    /\ imageId = NoImage
    /\ \E id \in ImageIds : SetBrushImageCall(id)
    /\ BrushBudget

\* The stroke begins; a second one begins once the first has gone round the buffer.
BrushStart ==
    /\ brushMode
    /\ ~isDrawing \/ Len(stamped) > bufferSize
    /\ \E p \in Points : StartDrawingCall(p)
    /\ BrushBudget

\* The pointer moves with the button down.
BrushDraw ==
    /\ brushMode
    /\ isDrawing
    /\ \E p \in Points :
          /\ Len(stamped) >= MaxFree => p = NextPoint(PointerAt)
          /\ DrawCall(p)
    /\ BrushBudget

NextBrush ==
    \/ BrushSetMode
    \/ BrushSetImage
    \/ BrushStart
    \/ BrushDraw

SpecBrush == Init /\ [][NextBrush]_vars

\* ------------------------------------------------------------- ImageLoader

\* new Image() with img.src = src
Img(src) == [src |-> src]

\* addImages' forEach: push every source that is not in the list yet.
RECURSIVE AddSources(_, _)
AddSources(list, arr) ==
    IF arr = << >> THEN list
    ELSE AddSources(IF \E i \in 1 .. Len(list) : list[i] = Head(arr)
                    THEN list ELSE Append(list, Head(arr)),
                    Tail(arr))

\* addImages(srcArray)
addImages(arr) ==
    LET reset == /\ AddSources(srcArray, arr) # srcArray
                 /\ ~isLoading
                 /\ loadedImages # << >>
    IN  /\ srcArray' = AddSources(srcArray, arr)
        /\ loadedImages' = IF reset THEN << >> ELSE loadedImages
        /\ loadingError' = IF reset THEN NoError ELSE loadingError
        /\ UNCHANGED << isLoading, imagePromises, loadPromise >>

\* load() while this.isLoading: return Promise.reject(new Error('Load already in progress.'))
loadRefused ==
    /\ busyCall' = [made |-> TRUE, state |-> "rejected", images |-> << >>,
                    error |-> AlreadyLoading, duringLoad |-> isLoading]
    /\ UNCHANGED << srcArray, loadedImages, loadingError, isLoading, imagePromises,
                    loadPromise >>

\* load() with no source: return Promise.resolve([])
loadEmpty ==
    /\ loadedImages' = << >>
    /\ loadingError' = NoError
    /\ loadPromise' = [state |-> "fulfilled", images |-> << >>, error |-> NoError]
    /\ busyCall' = [made |-> FALSE]
    /\ UNCHANGED << srcArray, isLoading, imagePromises >>

\* Variant of loadBegin: what the previous load left is kept until this one ends.
loadBegin_KeepsImages ==
    /\ isLoading' = TRUE
    /\ imagePromises' = [i \in 1 .. Len(srcArray) |-> [src |-> srcArray[i], state |-> "pending"]]
    /\ loadPromise' = [state |-> "pending", images |-> << >>, error |-> NoError]
    /\ busyCall' = [made |-> FALSE]
    /\ UNCHANGED << srcArray, loadedImages, loadingError >>

\* load() otherwise: one promise per source, Promise.all(...).then(...).catch(...)
loadBegin ==
    /\ isLoading' = TRUE
    /\ loadedImages' = << >>
    /\ loadingError' = NoError
    /\ imagePromises' = [i \in 1 .. Len(srcArray) |-> [src |-> srcArray[i], state |-> "pending"]]
    /\ loadPromise' = [state |-> "pending", images |-> << >>, error |-> NoError]
    /\ busyCall' = [made |-> FALSE]
    /\ UNCHANGED srcArray

\* load()
load ==
    IF isLoading THEN loadRefused
    ELSE IF Len(srcArray) = 0 THEN loadEmpty
    ELSE loadBegin

\* .then(images => ...)
loadThen(imgs) ==
    /\ loadedImages' = imgs
    /\ loadingError' = NoError
    /\ isLoading' = FALSE
    /\ loadPromise' = [state |-> "fulfilled", images |-> imgs, error |-> NoError]

\* Variant of loadCatch: isLoading is not reset when the load fails.
loadCatch_StaysLoading(error) ==
    /\ loadingError' = error
    /\ loadedImages' = << >>
    /\ loadPromise' = [state |-> "rejected", images |-> << >>, error |-> error]
    /\ UNCHANGED isLoading

\* .catch(error => ...)
loadCatch(error) ==
    /\ loadingError' = error
    /\ loadedImages' = << >>
    /\ isLoading' = FALSE
    /\ loadPromise' = [state |-> "rejected", images |-> << >>, error |-> error]

\* Promise.all is still pending: no image promise has been rejected and one is pending.
AllPending(promises) ==
    /\ \A i \in 1 .. Len(promises) : promises[i].state # "rejected"
    /\ \E i \in 1 .. Len(promises) : promises[i].state = "pending"

AllFulfilled(promises) == \A i \in 1 .. Len(promises) : promises[i].state = "fulfilled"

\* img.onload of the i-th image: resolve(img); the last one settles Promise.all.
onload(i) ==
    /\ imagePromises' = [imagePromises EXCEPT ![i].state = "fulfilled"]
    /\ IF AllPending(imagePromises) /\ AllFulfilled(imagePromises')
       THEN loadThen([j \in 1 .. Len(imagePromises) |-> Img(imagePromises[j].src)])
       ELSE UNCHANGED << loadedImages, loadingError, isLoading, loadPromise >>
    /\ UNCHANGED srcArray

\* img.onerror of the i-th image: reject(error); the first one settles Promise.all.
onerror(i) ==
    /\ imagePromises' = [imagePromises EXCEPT ![i].state = "rejected"]
    /\ IF AllPending(imagePromises)
       THEN loadCatch(LoadFailed(imagePromises[i].src))
       ELSE UNCHANGED << loadedImages, loadingError, isLoading, loadPromise >>
    /\ UNCHANGED srcArray

getImages == loadedImages

getError == loadingError

LoaderAddImages ==
    /\ \E arr \in SrcArrays :
          /\ addImages(arr)
          /\ lastLoad' = IF lastLoad.outcome \in { "ok", "failed" }
                            /\ AddSources(srcArray, arr) # srcArray
                         THEN [lastLoad EXCEPT !.added = TRUE] ELSE lastLoad
    /\ UNCHANGED << busyCall, drawer, cache >>

LoaderLoad ==
    /\ load
    /\ lastLoad' = IF isLoading THEN lastLoad
                   ELSE [outcome |-> IF Len(srcArray) = 0 THEN "ok" ELSE "loading",
                         srcs |-> srcArray, error |-> NoError, added |-> FALSE]
    /\ UNCHANGED << drawer, cache >>

ImageOnload ==
    /\ \E i \in 1 .. Len(imagePromises) :
          /\ imagePromises[i].state = "pending"
          /\ onload(i)
          /\ lastLoad' = IF lastLoad.outcome = "loading"
                            /\ \A j \in 1 .. Len(imagePromises) :
                                  j # i => imagePromises[j].state = "fulfilled"
                         THEN [lastLoad EXCEPT !.outcome = "ok"] ELSE lastLoad
    /\ UNCHANGED << busyCall, drawer, cache >>

ImageOnerror ==
    /\ \E i \in 1 .. Len(imagePromises) :
          /\ imagePromises[i].state = "pending"
          /\ onerror(i)
          /\ lastLoad' = IF lastLoad.outcome = "loading"
                         THEN [lastLoad EXCEPT !.outcome = "failed",
                                               !.error = LoadFailed(imagePromises[i].src)]
                         ELSE lastLoad
    /\ UNCHANGED << busyCall, drawer, cache >>

InitLoader ==
    /\ DrawerInit
    /\ \E srcs \in InitialSrcArrays : LoaderInit(srcs)
    /\ CacheInit([f \in FileNames |-> Absent])

NextLoader ==
    \/ LoaderAddImages
    \/ LoaderLoad
    \/ ImageOnload
    \/ ImageOnerror

SpecLoader == InitLoader /\ [][NextLoader]_vars

\* Every image that is loading fires its load or its error event in the end.
ImageEvent == ImageOnload \/ ImageOnerror

SpecLoaderFair == InitLoader /\ [][NextLoader]_vars /\ WF_vars(ImageEvent)

\* ----------------------------------------------------------- useImageCache

\* prevImages.some(img => img.name === file.name) ? prevImages : [...prevImages, {name, src}]
AddImage(imgs, name, src) ==
    IF \E i \in 1 .. Len(imgs) : imgs[i].name = name
    THEN imgs
    ELSE Append(imgs, [name |-> name, src |-> src])

\* prevImages.filter(img => img.name !== fileName)
RECURSIVE WithoutName(_, _)
WithoutName(imgs, name) ==
    IF imgs = << >> THEN << >>
    ELSE IF Head(imgs).name = name THEN WithoutName(Tail(imgs), name)
    ELSE << Head(imgs) >> \o WithoutName(Tail(imgs), name)

\* localStorage.setItem(key, value) stores String(value).
Stored(value) == IF value = JsNull THEN NullString ELSE value

Reading == { f \in FileNames : readers[f] > 0 }

InFlight == readers["f.png"] + readers["g.png"]

\* processAndCacheFile(file) with a File
processAndCacheFile(f) ==
    IF localStorage[f] # Absent
    THEN /\ images' = IF isMounted THEN AddImage(images, f, localStorage[f]) ELSE images
         /\ cacheIsLoading' = IF isMounted THEN FALSE ELSE cacheIsLoading
         /\ UNCHANGED << localStorage, readers, isMounted >>
    ELSE /\ cacheIsLoading' = IF isMounted THEN TRUE ELSE cacheIsLoading
         /\ readers' = [readers EXCEPT ![f] = @ + 1]
         /\ UNCHANGED << images, localStorage, isMounted >>

\* processAndCacheFile(file) with something that is not a File
processInvalid ==
    /\ cacheIsLoading' = IF isMounted THEN FALSE ELSE cacheIsLoading
    /\ UNCHANGED << images, localStorage, readers, isMounted >>

\* reader.onloadend, with reader.result = result; setItem stores it or throws.
onloadend(f, result, stores) ==
    /\ readers' = [readers EXCEPT ![f] = @ - 1]
    /\ IF isMounted
       THEN /\ localStorage' = IF stores THEN [localStorage EXCEPT ![f] = Stored(result)]
                                         ELSE localStorage
            /\ images' = AddImage(images, f, result)
            /\ cacheIsLoading' = FALSE
       ELSE UNCHANGED << localStorage, images, cacheIsLoading >>
    /\ UNCHANGED isMounted

\* clearCachedImageByName(fileName); React drops the update of an unmounted component.
clearCachedImageByName(name) ==
    /\ localStorage' = [localStorage EXCEPT ![name] = Absent]
    /\ images' = IF isMounted THEN WithoutName(images, name) ELSE images
    /\ UNCHANGED << cacheIsLoading, readers, isMounted >>

\* clearAllCachedImages()
clearAllCachedImages ==
    /\ localStorage' = [f \in FileNames |-> Absent]
    /\ images' = IF isMounted THEN << >> ELSE images
    /\ cacheIsLoading' = IF isMounted THEN FALSE ELSE cacheIsLoading
    /\ UNCHANGED << readers, isMounted >>

CacheProcessFile ==
    /\ \E f \in FileNames :
          /\ localStorage[f] = Absent => InFlight < MaxReaders
          /\ processAndCacheFile(f)
    /\ cacheLast' = [event |-> "processAndCacheFile"]
    /\ UNCHANGED << drawer, loader >>

CacheProcessInvalid ==
    /\ processInvalid
    /\ cacheLast' = [event |-> "processAndCacheFile"]
    /\ UNCHANGED << drawer, loader >>

\* The read succeeds: the load event, then loadend.
ReaderLoads ==
    /\ \E f \in Reading : \E stores \in BOOLEAN : onloadend(f, DataUrl(f), stores)
    /\ cacheLast' = [event |-> "read"]
    /\ UNCHANGED << drawer, loader >>

\* The read fails: the error event (onerror: setIsLoading(false) if mounted), then
\* loadend with reader.result = null.
ReaderFails ==
    /\ \E f \in Reading : \E stores \in BOOLEAN :
          /\ onloadend(f, JsNull, stores)
          /\ cacheLast' = [event |-> "readFailed", name |-> f, images0 |-> images,
                           storage0 |-> localStorage]
    /\ UNCHANGED << drawer, loader >>

CacheClearByName ==
    /\ \E name \in FileNames : clearCachedImageByName(name)
    /\ cacheLast' = [event |-> "clear"]
    /\ UNCHANGED << drawer, loader >>

CacheClearAll ==
    /\ clearAllCachedImages
    /\ cacheLast' = [event |-> "clear"]
    /\ UNCHANGED << drawer, loader >>

\* The effect's cleanup.
Unmount ==
    /\ isMounted
    /\ isMounted' = FALSE
    /\ UNCHANGED << images, cacheIsLoading, localStorage, readers, cacheLast,
                    drawer, loader >>

InitCache ==
    /\ DrawerInit
    /\ LoaderInit(<< >>)
    /\ \E stored \in InitialStorages : CacheInit(stored)

NextCache ==
    \/ CacheProcessFile
    \/ CacheProcessInvalid
    \/ ReaderLoads
    \/ ReaderFails
    \/ CacheClearByName
    \/ CacheClearAll
    \/ Unmount

SpecCache == InitCache /\ [][NextCache]_vars

\* ------------------------------------------------------------------ claims

\* The step is a call of the method called name.
IsCall(name) == lastCall' = name /\ steps' = steps + 1 /\ now' = now

\* The smoothing buffer: distances, points and cursor.
smoothing == << distanceBuffer, pointBuffer, bufferIndex >>

\* The end points of the segments among the marks ms, in paint order.
Ends(ms) == [i \in 1 .. Len(ms) |-> << ms[i].x0, ms[i].y0, ms[i].x1, ms[i].y1 >>]

\* The coordinates of the samples of a stroke.
Coords(stroke) == [i \in 1 .. Len(stroke) |-> [x |-> stroke[i].x, y |-> stroke[i].y]]

\* C1: a draw call made while the engine is Idle changes neither the surface, the
\* history, lastPoint, the smoothing buffer nor the Idle state, and raises nothing,
\* in line mode and in stamp mode.
C1_DrawWhileIdleIsNoOp ==
    [][ (IsCall("draw") /\ ~isDrawing) =>
            /\ UNCHANGED << surface, canvasHistory, lastX, lastY, smoothing, isDrawing >>
            /\ ~raised' ]_vars

\* C1: a draw was called while Idle, in stamp mode, with strokes in the history and
\* segments on the surface.
C1_Witness ==
    /\ lastCall = "draw"
    /\ ~isDrawing
    /\ brushMode
    /\ canvasHistory # << >>
    /\ surface.marks # << >>

\* C2: the engine starts Idle, goes from Idle to Drawing only in a startDrawing
\* step and from Drawing to Idle only in a stopDrawing step.
C2_StateChangesOnlyByLifecycle ==
    /\ ~getIsDrawing
    /\ [][ (isDrawing' # isDrawing) =>
              \/ isDrawing' /\ IsCall("startDrawing")
              \/ ~isDrawing' /\ IsCall("stopDrawing") ]_vars

\* C2: the engine is still Drawing after a call of clear, toggleGrid, redrawHistory
\* or setBrushMode made in the middle of a stroke.
C2_Witness ==
    /\ getIsDrawing
    /\ lastCall \in { "clear", "toggleGrid", "redrawHistory", "setBrushMode" }
    /\ steps >= 3

\* C3: clear() leaves the history empty and getIsDrawing() as it was.
C3_ClearEmptiesHistoryKeepsState ==
    [][ IsCall("clear") => canvasHistory' = << >> /\ isDrawing' = isDrawing ]_vars

\* C3: clear was called in the middle of a stroke, in stamp mode.
C3_Witness ==
    /\ lastCall = "clear"
    /\ isDrawing
    /\ brushMode
    /\ canvasHistory = << >>

\* C4: in line mode, after startDrawing(p0) and k draw calls draw(p1) .. draw(pk),
\* exactly k segments were painted, the i-th from p(i-1) to p(i), and the last
\* stroke of the history has the k + 1 samples p0 .. pk in call order.
C4_LineStrokeSegmentsAndSamples ==
    (run.phase = "open" /\ ~brushMode) =>
        LET k == Len(run.pts)
            P(i) == IF i = 0 THEN run.p0 ELSE run.pts[i]
        IN  /\ surface.grid = run.surface0.grid
            /\ Len(surface.marks) = Len(run.surface0.marks) + k
            /\ SubSeq(surface.marks, 1, Len(run.surface0.marks)) = run.surface0.marks
            /\ \A i \in 1 .. k :
                   LET m == surface.marks[Len(run.surface0.marks) + i]
                   IN  /\ m.kind = "line"
                       /\ << m.x0, m.y0 >> = << P(i - 1).x, P(i - 1).y >>
                       /\ << m.x1, m.y1 >> = << P(i).x, P(i).y >>
            /\ Len(canvasHistory) = run.hist0 + 1
            /\ Coords(Last(canvasHistory)) = [i \in 1 .. k + 1 |-> P(i - 1)]

\* C4: startDrawing((0,0)) then draw((10,0)) in line mode: one segment from (0,0)
\* to (10,0) and one open stroke with two samples.
C4_Witness ==
    /\ run.phase = "open"
    /\ ~brushMode
    /\ run.p0 = [x |-> 0, y |-> 0]
    /\ run.pts = << [x |-> 10, y |-> 0] >>
    /\ Ends(surface.marks) = << << 0, 0, 10, 0 >> >>
    /\ Len(canvasHistory) = 1
    /\ Len(canvasHistory[1]) = 2
    /\ isDrawing

\* C5: startDrawing(p) then stopDrawing() with no draw in between appends exactly
\* one stroke, whose only sample is {p.x, p.y, 0}, paints nothing, and the stroke
\* is the last element of the history after stopDrawing.
C5_StartStopOneSampleNothingPainted ==
    (run.phase = "stopped" /\ run.pts = << >>) =>
        /\ Len(canvasHistory) = run.hist0 + 1
        /\ Last(canvasHistory) = << [x |-> run.p0.x, y |-> run.p0.y, t |-> 0] >>
        /\ surface = run.surface0

\* C5: a stroke was started and stopped at once, after an earlier stroke, at a
\* point other than the origin.
C5_Witness ==
    /\ run.phase = "stopped"
    /\ run.pts = << >>
    /\ run.hist0 >= 1
    /\ run.p0 = [x |-> 10, y |-> 24]
    /\ ~isDrawing

\* C6: the sample a draw appends carries the clock value at the call minus the
\* start timestamp the opening startDrawing recorded (lastT).
C6_ElapsedSinceStrokeStart ==
    [][ (IsCall("draw") /\ canvasHistory' # canvasHistory) =>
            Last(Last(canvasHistory')).t = now - lastT ]_vars

\* C7: in every stroke of the history the first sample's t is 0 and t never
\* decreases along the stroke (the clock never goes backwards: Tick only adds).
C7_ElapsedStartsAtZeroNonDecreasing ==
    \A s \in 1 .. Len(canvasHistory) :
        /\ canvasHistory[s][1].t = 0
        /\ \A i \in 1 .. Len(canvasHistory[s]) - 1 :
               canvasHistory[s][i].t <= canvasHistory[s][i + 1].t

\* C7: a stroke with three samples, the clock having advanced between the two draws.
C7_Witness ==
    \E s \in 1 .. Len(canvasHistory) :
        /\ Len(canvasHistory[s]) >= 3
        /\ canvasHistory[s][2].t < canvasHistory[s][3].t

\* C8: a stamp-mode draw while Drawing whose image id does not resolve paints
\* nothing, raises nothing, appends the sample to the open stroke, moves lastPoint
\* to the new point and leaves the engine Drawing.  (Stated for a non-empty
\* history, where the history update itself can complete.)
C8_UnresolvedStampSkipsAndContinues ==
    [][ (IsCall("draw") /\ isDrawing /\ brushMode /\ ~Resolves(imageId)
            /\ canvasHistory # << >>) =>
            /\ ~raised'
            /\ surface' = surface
            /\ Len(canvasHistory') = Len(canvasHistory)
            /\ Len(Last(canvasHistory')) = Len(Last(canvasHistory)) + 1
            /\ lastX' = Last(Last(canvasHistory')).x
            /\ lastY' = Last(Last(canvasHistory')).y
            /\ isDrawing' ]_vars

\* C9: no call made in line mode raises an error, and stopDrawing while Idle
\* leaves the engine Idle and the history unchanged.
C9_NoCallRaisesInLineMode ==
    /\ [](~brushMode => ~raised)
    /\ [][ (IsCall("stopDrawing") /\ ~isDrawing) =>
               ~isDrawing' /\ canvasHistory' = canvasHistory ]_vars

\* C10: after n toggleGrid calls in a row showGrid has its original value exactly
\* when n is even (each call flips it), and the history, the Idle/Drawing state,
\* the brush mode, the stamp handle, lastPoint and the smoothing buffer are as
\* they were before the first of the calls.
C10_ToggleGridFlipsOnlyShowGrid ==
    toggles.n >= 1 =>
        /\ (showGrid = toggles.showGrid0) <=> (toggles.n % 2 = 0)
        /\ toggles.before = << canvasHistory, isDrawing, brushMode, imageId,
                               lastX, lastY, distanceBuffer, pointBuffer, bufferIndex >>

\* C10: toggleGrid was called twice in a row in the middle of a stamp-mode stroke.
C10_Witness ==
    /\ toggles.n = 2
    /\ isDrawing
    /\ brushMode
    /\ canvasHistory # << >>
    /\ showGrid

\* The marks a call added to the surface, given the marks that were there before.
Added(marks0) == SubSeq(surface.marks, Len(marks0) + 1, Len(surface.marks))

\* The last call was a draw made while Drawing (Tick leaves lastCall alone).
AfterActiveDraw == lastCall = "draw" /\ lastDraw.active

(* C11: calling toggleGrid twice in a row gives back the rendered content there
   was before the first call: the grid and every segment and stamp that was
   visible, from any reachable state.  The code's toggleGrid clears the canvas
   and paints the grid only, so the marks are gone. *)
C11_ToggleTwiceRestoresSurface ==
    toggles.n = 2 => surface = toggles.surface0

(* C12: a stamp-mode draw while Drawing, with a resolvable image, over a
   distance d paints numStamps + 1 stamps, numStamps = max(1, floor(d / 10)),
   stamp i (i = 0 .. numStamps) centred on lastPoint + (point - lastPoint) * i /
   numStamps: the first on lastPoint, the last on the new point.  d = 25 gives
   numStamps 2, d = 0 gives 1. *)
C12_StampsInterpolateLastPointToPoint ==
    /\ NumCircles(25) = 2
    /\ NumCircles(0) = 1
    /\ (AfterActiveDraw /\ lastDraw.stamp /\ lastDraw.resolved) =>
        LET p  == lastDraw.point
            d  == Distance(lastDraw.x0, lastDraw.y0, p.x, p.y)
            numStamps == IF d \div circlesPerPixelDenom >= 1
                         THEN d \div circlesPerPixelDenom ELSE 1
            new == Added(lastDraw.marks0)
        IN  /\ numStamps >= 1
            /\ SubSeq(surface.marks, 1, Len(lastDraw.marks0)) = lastDraw.marks0
            /\ Len(new) = numStamps + 1
            /\ \A i \in 0 .. numStamps :
                /\ new[i + 1].kind = "image"
                /\ new[i + 1].img = imageId
                /\ (new[i + 1].dx + new[i + 1].dw \div 2) * numStamps
                       = lastDraw.x0 * numStamps + (p.x - lastDraw.x0) * i
                /\ (new[i + 1].dy + new[i + 1].dh \div 2) * numStamps
                       = lastDraw.y0 * numStamps + (p.y - lastDraw.y0) * i

\* C12: a stamp-mode draw over a distance of 26 painted three stamps.
C12_Witness ==
    /\ AfterActiveDraw
    /\ lastDraw.stamp
    /\ lastDraw.resolved
    /\ Distance(lastDraw.x0, lastDraw.y0, lastDraw.point.x, lastDraw.point.y) = 26
    /\ Len(Added(lastDraw.marks0)) = 3

(* C14: the stroke history is append-only between clears and only its last
   stroke is open: in every step other than clear the number of strokes does
   not decrease, every stroke that is not the last one is unchanged, and the
   last stroke keeps its samples, new ones being appended after them. *)
C14_HistoryAppendOnlyBetweenClears ==
    [][ ~IsCall("clear") =>
          /\ Len(canvasHistory') >= Len(canvasHistory)
          /\ \A s \in 1 .. Len(canvasHistory) :
                IF s < Len(canvasHistory)
                THEN canvasHistory'[s] = canvasHistory[s]
                ELSE /\ Len(canvasHistory'[s]) >= Len(canvasHistory[s])
                     /\ SubSeq(canvasHistory'[s], 1, Len(canvasHistory[s]))
                            = canvasHistory[s] ]_vars

\* C14: a second stroke was opened after a stroke of two samples, and drawn on.
C14_Witness ==
    /\ lastCall = "draw"
    /\ Len(canvasHistory) = 2
    /\ Len(canvasHistory[1]) = 2
    /\ Len(canvasHistory[2]) = 2

(* C18: startDrawing(point), called while Idle or while Drawing, leaves the
   engine Drawing, appends exactly one new stroke whose only sample is
   (point, 0), sets lastPoint to point and resets the smoothing buffer (all
   distances 0, all points equal to point, cursor 0); a stroke that was open
   gets no further sample from any later draw. *)
C18_StartDrawingOpensFreshStroke ==
    /\ [](lastCall = "startDrawing" =>
            /\ getIsDrawing
            /\ canvasHistory
                   = Append(run.history0, << [x |-> run.p0.x, y |-> run.p0.y, t |-> 0] >>)
            /\ lastX = run.p0.x
            /\ lastY = run.p0.y
            /\ distanceBuffer = [i \in 0 .. bufferSize - 1 |-> 0]
            /\ pointBuffer = [i \in 0 .. bufferSize - 1 |-> run.p0]
            /\ bufferIndex = 0)
    /\ [][ IsCall("draw") =>
             \A s \in 1 .. Len(canvasHistory) - 1 :
                 canvasHistory'[s] = canvasHistory[s] ]_vars

\* C18: startDrawing was called while a stroke of two samples was open.
C18_Witness ==
    /\ lastCall = "startDrawing"
    /\ run.wasDrawing
    /\ Len(canvasHistory) = 2
    /\ Len(canvasHistory[1]) = 2
    /\ lastX # canvasHistory[1][2].x

(* C20: the render strategy is chosen by the mode at each draw.  getBrushMode
   returns the argument of the last setBrushMode (false at first); a line-mode
   draw while Drawing paints exactly one line segment, from lastPoint to the
   point, and leaves the smoothing buffer and its cursor alone; a stamp-mode
   draw paints stamps only; setBrushMode changes neither the history, nor
   Idle/Drawing, nor lastPoint. *)
C20_RenderStrategyByMode ==
    /\ [](getBrushMode = lastMode)
    /\ []((AfterActiveDraw /\ ~lastDraw.stamp) =>
            LET new == Added(lastDraw.marks0)
            IN  /\ SubSeq(surface.marks, 1, Len(lastDraw.marks0)) = lastDraw.marks0
                /\ Len(new) = 1
                /\ new[1].kind = "line"
                /\ Ends(new) = << << lastDraw.x0, lastDraw.y0,
                                     lastDraw.point.x, lastDraw.point.y >> >>
                /\ smoothing = << lastDraw.dist0, lastDraw.pts0, lastDraw.index0 >>)
    /\ []((AfterActiveDraw /\ lastDraw.stamp) =>
            LET new == Added(lastDraw.marks0)
            IN  /\ SubSeq(surface.marks, 1, Len(lastDraw.marks0)) = lastDraw.marks0
                /\ \A i \in 1 .. Len(new) : new[i].kind = "image")
    /\ [][ IsCall("setBrushMode") =>
             UNCHANGED << canvasHistory, isDrawing, lastX, lastY >> ]_vars

\* C20: one stroke got a line segment, then, the mode switched mid-stroke, stamps.
C20_Witness ==
    /\ AfterActiveDraw
    /\ lastDraw.stamp
    /\ Len(canvasHistory) = 1
    /\ Len(canvasHistory[1]) = 3
    /\ Len(lastDraw.marks0) = 1
    /\ lastDraw.marks0[1].kind = "line"
    /\ Len(Added(lastDraw.marks0)) >= 2

\* The sum of the last min(Len(seq), n) elements of seq.
RECURSIVE SumLast(_, _)
SumLast(seq, n) ==
    IF n = 0 \/ seq = << >> THEN 0
    ELSE seq[Len(seq)] + SumLast(SubSeq(seq, 1, Len(seq) - 1), n - 1)

(* C13: after k stamp-mode draws since the last startDrawing the rolling
   average computed after the write is (the sum of the most recent min(k, N)
   distances) / N, N = 20: d / N after one draw of distance d; the average
   computed before the write is the after-write average of the stroke's
   previous stamp-mode draw, 0 for the first. *)
C13_RollingAverageOverLastN ==
    (AfterActiveDraw /\ lastDraw.stamp) =>
        LET k == Len(stamped)
            after  == lastDraw.avgDistance
            before == lastDraw.avgDistanceLast
        IN  /\ k >= 1
            /\ after.num * 20 = SumLast(stamped, 20) * after.den
            /\ k = 1 => after.num * 20 = stamped[1] * after.den
            /\ before.num * 20 = SumLast(SubSeq(stamped, 1, k - 1), 20) * before.den
            /\ k = 1 => before.num = 0

\* C13: the 21st stamp-mode draw of a stroke pushed a distance of 26, the first
\* one, out of the average.
C13_Witness ==
    /\ AfterActiveDraw
    /\ lastDraw.stamp
    /\ Len(stamped) = bufferSize + 1
    /\ stamped[1] = 26
    /\ lastDraw.avgDistance.num = SumLast(stamped, Len(stamped)) - 26

(* C19: in every reachable state the smoothing buffer holds exactly N = 20
   distances and N points and its cursor is an integer in [0, N); a stamp-mode
   draw while Drawing writes exactly one slot, the one at the cursor, and moves
   the cursor on by one modulo N, so that after k stamp-mode draws since
   startDrawing the cursor is k mod N. *)
C19_BufferFullCursorCyclic ==
    /\ DOMAIN distanceBuffer = 0 .. 19
    /\ DOMAIN pointBuffer = 0 .. 19
    /\ \A i \in 0 .. 19 :
          /\ distanceBuffer[i] \in Nat
          /\ DOMAIN pointBuffer[i] = { "x", "y" }
    /\ bufferIndex \in 0 .. 19
    /\ bufferIndex = Len(stamped) % 20
    /\ (AfterActiveDraw /\ lastDraw.stamp) =>
          LET p == lastDraw.point
              c == lastDraw.index0
          IN  /\ distanceBuffer[c] = Distance(lastDraw.x0, lastDraw.y0, p.x, p.y)
              /\ pointBuffer[c] = p
              /\ \A i \in (0 .. 19) \ { c } :
                    /\ distanceBuffer[i] = lastDraw.dist0[i]
                    /\ pointBuffer[i] = lastDraw.pts0[i]
              /\ bufferIndex = (c + 1) % 20

\* C19: the cursor is back at slot 1 after 21 stamp-mode draws of one stroke.
C19_Witness ==
    /\ AfterActiveDraw
    /\ lastDraw.stamp
    /\ Len(stamped) = bufferSize + 1
    /\ lastDraw.index0 = 0
    /\ bufferIndex = 1

(* C15: load() called while a load is in progress waits for that load: the
   promise it returns settles only after the load in progress has completed,
   and with the loaded images.  The code returns a promise that is rejected
   at once. *)
C15_LoadWhileLoadingWaits ==
    busyCall.made =>
        /\ busyCall.state # "pending" => ~busyCall.duringLoad
        /\ busyCall.state # "pending" => busyCall.state = "fulfilled"

\* One image per source, in the order of the sources.
ImagesOf(srcs) == [i \in 1 .. Len(srcs) |-> [src |-> srcs[i]]]

(* C16: a load is all-or-nothing.  If an image of the load fails, the load's
   promise is rejected, getImages() is empty and getError() is that failure;
   if all succeed, the promise is fulfilled with one image per source of the
   load in source order, which getImages() returns (until a source is added),
   and getError() is null.  In every state getImages() is empty unless the
   last load that began completed successfully, and getError() is null unless
   it failed. *)
C16_LoadAllOrNothing ==
    /\ getImages # << >> => lastLoad.outcome = "ok"
    /\ getError # NoError => lastLoad.outcome = "failed"
    /\ lastLoad.outcome = "failed" =>
          /\ lastLoad.error.message = "Failed to load image"
          /\ loadPromise.state = "rejected"
          /\ loadPromise.error = lastLoad.error
          /\ getImages = << >>
          /\ getError = lastLoad.error
    /\ lastLoad.outcome = "ok" =>
          /\ loadPromise.state = "fulfilled"
          /\ loadPromise.images = ImagesOf(lastLoad.srcs)
          /\ getError = NoError
          /\ ~lastLoad.added => getImages = ImagesOf(lastLoad.srcs)

\* C16: a load of two sources failed on its second image after the first had
\* loaded.
C16_Witness ==
    /\ lastLoad.outcome = "failed"
    /\ Len(imagePromises) = 2
    /\ imagePromises[1].state = "fulfilled"
    /\ imagePromises[2].state = "rejected"
    /\ getError = LoadFailed(srcArray[2])
    /\ ~isLoading

(* C17: while the hook is mounted, isLoading is true exactly when at least one
   file passed to processAndCacheFile is being read, whatever the interleaving
   of calls and FileReader events.  isLoading is one boolean that every
   completion, cache hit and clear sets to false. *)
C17_LoadingExactlyWhileReading ==
    isMounted => (cacheIsLoading <=> Reading # {})

\* The end points of the segments that join the consecutive samples of a stroke.
Joins(stroke) ==
    [i \in 1 .. Len(stroke) - 1 |->
        << stroke[i].x, stroke[i].y, stroke[i + 1].x, stroke[i + 1].y >>]

RECURSIVE AllJoins(_)
AllJoins(history) ==
    IF history = << >> THEN << >>
    ELSE Joins(Head(history)) \o AllJoins(Tail(history))

Range(seq) == { seq[i] : i \in 1 .. Len(seq) }

\* What redrawHistory leaves on the surface: the grid if showGrid, and the joins.
C21_RedrawnSurface ==
    lastCall = "redrawHistory" =>
        /\ surface.grid = (IF showGrid THEN GridLines ELSE {})
        /\ \A i \in 1 .. Len(surface.marks) : surface.marks[i].kind = "line"
        /\ Ends(surface.marks) = AllJoins(canvasHistory)

\* redrawHistory gives back the segments painted live, if all were lines.
C21_RedrawnLive ==
    (lastCall = "redrawHistory" /\ live.lineOnly) =>
        Range(Ends(surface.marks)) = live.segments

(* C21: redrawHistory leaves the history and Idle/Drawing unchanged and leaves
   on the surface exactly the grid (if showGrid) and, for every stroke of the
   history, the segments joining its consecutive samples; so, for strokes
   drawn in line mode only, redrawHistory after any number of toggleGrid calls
   restores exactly the set of segments painted live since the last clear; and
   redrawHistory twice gives the surface of redrawHistory once. *)
C21_RedrawHistoryRestoresSegments ==
    /\ []C21_RedrawnSurface
    /\ []C21_RedrawnLive
    /\ [][ IsCall("redrawHistory") =>
             /\ UNCHANGED << canvasHistory, isDrawing >>
             /\ lastCall = "redrawHistory" => surface' = surface ]_vars

(* C22: after construction and after every public operation of the engine the
   grid is on the surface exactly when showGrid is true, and the drawing stroke
   style is back in the context after the grid was painted, so that no stroke
   segment is painted with the grid's stroke style. *)
C22_GridIffShowGridStyleRestored ==
    /\ showGrid => surface.grid = GridLines /\ surface.grid # {}
    /\ ~showGrid => surface.grid = {}
    /\ \A g \in surface.grid : g.strokeStyle = "#ddd" /\ g.lineWidth = "0.5"
    /\ ctx.strokeStyle = "#fff"
    /\ ctx.lineWidth = "2"
    /\ \A i \in 1 .. Len(surface.marks) :
          surface.marks[i].kind = "line" =>
              /\ surface.marks[i].strokeStyle = "#fff"
              /\ surface.marks[i].lineWidth = "2"

\* C22: redrawHistory painted the grid and then the segments of a stroke.
C22_Witness ==
    /\ lastCall = "redrawHistory"
    /\ showGrid
    /\ Len(surface.marks) >= 1
    /\ surface.marks[1].kind = "line"

(* C23: in every reachable state in which the engine is Drawing the history is
   not empty, so that draw has an open last stroke to append its sample to,
   whatever the interleaving of startDrawing, draw, stopDrawing, clear,
   toggleGrid and redrawHistory.  clear() in the middle of a stroke empties the
   history and leaves the engine Drawing. *)
C23_DrawingHasOpenStroke ==
    getIsDrawing => canvasHistory # << >>

(* C24: in every reachable state in which the history is not empty, lastPoint
   is the last sample of the last stroke, also after a draw that failed part
   of the way. *)
C24_LastPointIsLastSample ==
    canvasHistory # << >> =>
        /\ Last(canvasHistory) # << >>
        /\ lastX = Last(Last(canvasHistory)).x
        /\ lastY = Last(Last(canvasHistory)).y

\* C24: a stamp-mode draw to another point threw on an unresolvable image, in a
\* stroke that has a sample of an earlier draw.
C24_Witness ==
    /\ AfterActiveDraw
    /\ raised
    /\ lastDraw.stamp
    /\ canvasHistory # << >>
    /\ Len(Last(canvasHistory)) = 2
    /\ lastDraw.point # [x |-> lastX, y |-> lastY]

(* C25: whenever the ImageLoader is not loading and getImages() is not empty,
   getImages() holds exactly one loaded image per source of the source list,
   in the same order, for every interleaving of addImages and load.  addImages
   during a load adds the source and resets nothing. *)
C25_ImagesMatchSources ==
    (~isLoading /\ getImages # << >>) => getImages = ImagesOf(srcArray)

(* C26: if the read of a file fails (the error event, then loadend), no entry
   for the file is added to images and nothing is written to the cache under
   its key; only isLoading is set to false.  onloadend runs after onerror and
   stores reader.result, which is null. *)
C26_FailedReadLeavesNoTrace ==
    cacheLast.event = "readFailed" =>
        /\ images = cacheLast.images0
        /\ localStorage = cacheLast.storage0
        /\ isMounted => ~cacheIsLoading

\* The sources of the images of the load in flight.
SourcesOf(promises) == [i \in 1 .. Len(promises) |-> promises[i].src]

(* C27: at most one load is in flight at a time and every load that starts
   ends: if every image of a started load fires its load or its error event in
   the end, isLoading becomes false in the end, and it stays false until the
   next load() call, which is accepted. *)
C27_OneLoadAtATimeEveryLoadEnds ==
    /\ isLoading ~> ~isLoading
    /\ [](busyCall.made => busyCall.duringLoad)
    /\ [][ (isLoading /\ isLoading') =>
             SourcesOf(imagePromises') = SourcesOf(imagePromises) ]_vars
    /\ [][ (~isLoading /\ isLoading') =>
             /\ lastLoad'.outcome = "loading"
             /\ ~busyCall'.made
             /\ loadPromise'.state = "pending"
             /\ SourcesOf(imagePromises') = srcArray
             /\ \A i \in 1 .. Len(imagePromises') : imagePromises'[i].state = "pending" ]_vars

\* C27: a load of two sources ended at the failure of one image while the other
\* was still loading, and a load() called during it had been refused.
C27_Witness ==
    /\ ~isLoading
    /\ lastLoad.outcome = "failed"
    /\ busyCall.made
    /\ \E i \in 1 .. Len(imagePromises) : imagePromises[i].state = "pending"

=============================================================================
